---- MODULE Spec2Model ----
(***************************************************************************)
(* Orthotracker Pro (OrthotrackerPro_Full_Streamlit_MVP.py): the           *)
(* commission engine, the Log Procedure form, the offline queue and its    *)
(* sync, and the admin rule form.                                          *)
(*                                                                         *)
(* Money is carried in hundredths of a currency unit, so that the          *)
(* division by 100.0 of a percentage rule is exact: a revenue of R units   *)
(* under a rule of V percent contributes R * V hundredths, a fixed rule of *)
(* V units contributes V * 100 hundredths.  Floating-point rounding is not *)
(* represented.  Time is a small range of ticks; the default effective     *)
(* window of a rule, 2000-01-01 .. 2099-01-01, is the range                *)
(* EffectiveFromDefault .. EffectiveToDefault of it.                       *)
(* Passwords, attachments and the rep_id columns are not represented; a    *)
(* signed-in user is any row of the users table.                           *)
(***************************************************************************)
EXTENDS Integers, Sequences, FiniteSets, TLC

VARIABLES
    users,              \* table users, rows in id order (id = index)
    reps,               \* table reps, rows in id order
    audit_logs,         \* table audit_logs, rows in id order
    sessions,           \* per session, the script run working on QUEUE_FILE
    commission_rules,   \* table commission_rules, rows in id order
    procedures,         \* table procedures, rows in id order (id = index)
    commissions,        \* table commissions, rows in id order
    offline_queue,      \* the list stored in QUEUE_FILE (<<>> when the file is absent)
    evaluation          \* the observed call of calculate_commission_for_procedure

vars == <<users, reps, audit_logs, sessions, commission_rules, procedures,
          commissions, offline_queue, evaluation>>

----------------------------------------------------------------------------
(* Bounds of the model *)

MaxNow == 4          \* the clock reads 0 .. MaxNow
MaxEvalRules == 2    \* rules stored before the observed evaluator call
MaxRules == 2        \* rules stored (program specification)
MaxProcs == 2        \* procedures persisted (program specification)
MaxQueue == 1        \* entries held in the offline queue
NumSessions == 2     \* browser sessions running the script concurrently
MaxAppRules == 1     \* rules stored in the application specification
MaxAppProcs == 1     \* procedures stored in the application specification

(* Program constants *)

EffectiveFromDefault == 1    \* CommissionRule.effective_from default, datetime(2000,1,1)
EffectiveToDefault == 3      \* CommissionRule.effective_to default, datetime(2099,1,1)
Hundred == 100               \* the 100.0 of r.value / 100.0

Times == 0..MaxNow

----------------------------------------------------------------------------
(* Python / JSON values.  A string is the sequence of its characters. *)

StrV(s)   == [t |-> "str",   s |-> s,    n |-> 0, items |-> <<>>]
IntV(n)   == [t |-> "int",   s |-> <<>>, n |-> n, items |-> <<>>]
FloatV(n) == [t |-> "float", s |-> <<>>, n |-> n, items |-> <<>>]
BoolV(b)  == [t |-> "bool",  s |-> <<>>, n |-> IF b THEN 1 ELSE 0, items |-> <<>>]
NoneV     == [t |-> "none",  s |-> <<>>, n |-> 0, items |-> <<>>]
ListV(n)  == [t |-> "list",  s |-> <<>>, n |-> n, items |-> <<>>]   \* a list of n elements
DictV(kv) == [t |-> "dict",  s |-> <<>>, n |-> 0, items |-> kv]     \* kv: sequence of [k, v]

\* Python truth value, as tested by `r.condition or {}`
Truthy(v) ==
    CASE v.t = "none"  -> FALSE
      [] v.t = "bool"  -> v.n = 1
      [] v.t = "int"   -> v.n # 0
      [] v.t = "float" -> v.n # 0
      [] v.t = "str"   -> v.s # <<>>
      [] v.t = "list"  -> v.n > 0
      [] v.t = "dict"  -> v.items # <<>>

DigitChar == <<"0", "1", "2", "3", "4", "5", "6", "7", "8", "9">>

RECURSIVE Digits(_)
Digits(n) ==
    IF n < 10 THEN <<DigitChar[n + 1]>>
    ELSE Digits(n \div 10) \o <<DigitChar[(n % 10) + 1]>>

\* str(x) of a scalar
str(v) ==
    CASE v.t = "str"   -> v.s
      [] v.t = "int"   -> Digits(v.n)
      [] v.t = "float" -> Digits(v.n) \o <<".", "0">>
      [] v.t = "bool"  -> IF v.n = 1 THEN <<"T", "r", "u", "e">>
                                     ELSE <<"F", "a", "l", "s", "e">>
      [] v.t = "none"  -> <<"N", "o", "n", "e">>

UpperToLower ==
    [c \in {"C", "F", "H", "K", "N", "T"} |->
        CASE c = "C" -> "c" [] c = "F" -> "f" [] c = "H" -> "h"
          [] c = "K" -> "k" [] c = "N" -> "n" [] c = "T" -> "t"]

\* str.lower()
lower(s) ==
    [i \in 1..Len(s) |-> IF s[i] \in DOMAIN UpperToLower THEN UpperToLower[s[i]] ELSE s[i]]

----------------------------------------------------------------------------
(* Commission engine: calculate_commission_for_procedure *)

EmptyDict == DictV(<<>>)

\* getattr(procedure, k, None): the attribute, None when the object has none
getattr(procedure, k) ==
    IF k \in DOMAIN procedure THEN procedure[k] ELSE NoneV

\* cond = r.condition or {}
condition_or_empty(r) ==
    IF Truthy(r.condition) THEN r.condition ELSE EmptyDict

\* values_differ comparing the strings as they are, without .lower()
values_differ_case_sensitive(pv, v) ==
    str(pv) # str(v)

\* str(pv).lower() != str(v).lower()
values_differ(pv, v) ==
    lower(str(pv)) # lower(str(v))

\* match_loop skipping a key the procedure lacks instead of failing the match
RECURSIVE match_loop_fail_open(_, _, _)
match_loop_fail_open(procedure, items, i) ==
    IF i > Len(items) THEN TRUE
    ELSE LET pv == getattr(procedure, items[i].k) IN
         IF pv = NoneV THEN match_loop_fail_open(procedure, items, i + 1)
         ELSE IF values_differ(pv, items[i].v) THEN FALSE
         ELSE match_loop_fail_open(procedure, items, i + 1)

RECURSIVE match_loop(_, _, _)
\* the inner loop `for k, v in cond.items()`: the value of `match` after it
match_loop(procedure, items, i) ==
    IF i > Len(items) THEN TRUE
    ELSE LET pv == getattr(procedure, items[i].k) IN
         IF pv = NoneV THEN FALSE
         ELSE IF values_differ(pv, items[i].v) THEN FALSE
         ELSE match_loop(procedure, items, i + 1)

\* (procedure.revenue or 0.0)
revenue_or_zero(procedure) ==
    IF Truthy(procedure.revenue) THEN procedure.revenue.n ELSE 0

\* contribution without the division by 100.0 of the percentage
contribution_undivided(r, procedure) ==
    IF r.mode = "percentage"
    THEN revenue_or_zero(procedure) * r.value * Hundred
    ELSE r.value * Hundred

\* contribution taking every rule as a percentage of the revenue
contribution_always_percentage(r, procedure) ==
    revenue_or_zero(procedure) * r.value

\* what a matching rule adds to total_comm, in hundredths
contribution(r, procedure) ==
    IF r.mode = "percentage"
    THEN revenue_or_zero(procedure) * r.value
    ELSE r.value * Hundred

\* query_rules with the end of the window excluded: effective_to > now
query_rules_exclusive_end(rules, now) ==
    SelectSeq(rules, LAMBDA r : /\ r.active = TRUE
                                /\ r.effective_from <= now
                                /\ r.effective_to > now)

\* the rows the query returns: active, effective_from <= now, effective_to >= now
query_rules(rules, now) ==
    SelectSeq(rules, LAMBDA r : /\ r.active = TRUE
                                /\ r.effective_from <= now
                                /\ r.effective_to >= now)

Returned(total) == [raised |-> FALSE, total |-> total]
Raised          == [raised |-> TRUE,  total |-> 0]

\* rule_step assigning the contribution to total_comm instead of adding it
rule_step_overwrite(r, procedure, total_comm) ==
    LET cond == condition_or_empty(r) IN
    IF cond.t # "dict" THEN Raised
    ELSE IF match_loop(procedure, cond.items, 1)
         THEN Returned(contribution(r, procedure))
         ELSE Returned(total_comm)

\* rule_step taking a rule without condition keys as no match
rule_step_empty_no_match(r, procedure, total_comm) ==
    LET cond == condition_or_empty(r) IN
    IF cond.t # "dict" THEN Raised
    ELSE IF cond.items # <<>> /\ match_loop(procedure, cond.items, 1)
         THEN Returned(total_comm + contribution(r, procedure))
         ELSE Returned(total_comm)

\* what the body of `for r in rules` does with total_comm: the new total, or
\* the AttributeError of cond.items() on a value that is no dict
rule_step(r, procedure, total_comm) ==
    LET cond == condition_or_empty(r) IN
    IF cond.t # "dict" THEN Raised
    ELSE IF match_loop(procedure, cond.items, 1)
         THEN Returned(total_comm + contribution(r, procedure))
         ELSE Returned(total_comm)

\* the loop `for r in rules`, from row i on
RECURSIVE rules_loop(_, _, _, _)
rules_loop(rules, procedure, i, total_comm) ==
    IF i > Len(rules) THEN Returned(total_comm)
    ELSE LET step == rule_step(rules[i], procedure, total_comm) IN
         IF step.raised THEN Raised
         ELSE rules_loop(rules, procedure, i + 1, step.total)

\* calculate_commission_for_procedure looping over every stored rule, the
\* query's filter left out
calculate_commission_unfiltered(rules, procedure, now) ==
    rules_loop(rules, procedure, 1, 0)

\* calculate_commission_for_procedure(db, procedure), the clock reading `now`
calculate_commission_for_procedure(rules, procedure, now) ==
    rules_loop(query_rules(rules, now), procedure, 1, 0)

----------------------------------------------------------------------------
(* Inputs *)

\* the text typed into 'Condition JSON': blank, not JSON, or the JSON text of a value
BlankText   == [kind |-> "blank",   value |-> NoneV]
InvalidText == [kind |-> "invalid", value |-> NoneV]
JsonText(v) == [kind |-> "json",    value |-> v]

Item(k, v) == [k |-> k, v |-> v]

CondKN        == DictV(<<Item("procedure_type", StrV(<<"K", "N">>))>>)
CondTerritory == DictV(<<Item("procedure_type", StrV(<<"k", "n">>)),
                         Item("territory", StrV(<<"x">>))>>)
CondHospRev   == DictV(<<Item("hospital", StrV(<<"c", "h">>)),
                         Item("revenue", FloatV(200))>>)
CondList      == ListV(1)

\* the condition texts of the evaluator specification
EvalCondTexts ==
    {BlankText, InvalidText, JsonText(NoneV), JsonText(CondKN),
     JsonText(CondTerritory), JsonText(CondHospRev), JsonText(CondList)}

\* the condition texts of the program specification
FormCondTexts == {InvalidText, JsonText(CondKN), JsonText(CondList)}

Modes == {"percentage", "fixed"}     \* the options of the 'Mode' selectbox
Vals == {10}                         \* 'Value (percent or fixed KSh)', min_value 0.0

ProcedureTypes == {<<"k", "n">>, <<"h", "c">>}
Hospitals == {<<"C", "H">>}
Revenues == {0, 200}                 \* 'Revenue amount (KSh)', min_value 0.0

\* the entry dict the Log Procedure form builds
Entries ==
    [hospital : Hospitals, procedure_type : ProcedureTypes, revenue : Revenues]

\* the entries submitted in the program specification
FormEntries == {e \in Entries : e.revenue = 200}

\* Procedure(...) of an entry, with the id the insert gives it
ProcedureRow(id, entry) ==
    [id             |-> IntV(id),
     hospital       |-> StrV(entry.hospital),
     procedure_type |-> StrV(entry.procedure_type),
     revenue        |-> FloatV(entry.revenue)]

\* the Procedure objects handed to the observed evaluator call: those of the
\* entries, and those whose revenue is None
ProcedureObjects ==
    {ProcedureRow(1, e) : e \in Entries}
    \cup {[ProcedureRow(1, e) EXCEPT !.revenue = NoneV] : e \in Entries}

----------------------------------------------------------------------------
(* State *)

NoCall ==
    [called |-> FALSE, procedure |-> NoneV, rules |-> <<>>, now |-> 0,
     raised |-> FALSE, total |-> 0]

\* a session whose script is not running
Idle == [pc |-> "idle", queue |-> <<>>, i |-> 0, entry |-> NoneV, saved |-> FALSE]

Sessions == 1..NumSessions

Init ==
    /\ users = <<>>
    /\ reps = <<>>
    /\ audit_logs = <<>>
    /\ sessions = [s \in Sessions |-> Idle]
    /\ commission_rules = <<>>
    /\ procedures = <<>>
    /\ commissions = <<>>
    /\ offline_queue = <<>>
    /\ evaluation = NoCall

----------------------------------------------------------------------------
(* Accounts: register_user, and the admin's 'Create admin user' *)

Emails == {"a@x", "b@x"}
Roles == {"rep", "admin"}            \* the options of 'Role (only for register)'

User(email, role) == [email |-> email, role |-> role]
Rep(user_id) == [user_id |-> user_id]
AuditLog(user, action, entity, entity_id) ==
    [user |-> user, action |-> action, entity |-> entity, entity_id |-> entity_id]

\* db.query(User).filter(User.email == email).first(): the row's id, 0 for None
find_user(us, email) ==
    IF \E i \in 1..Len(us) : us[i].email = email
    THEN CHOOSE i \in 1..Len(us) :
            /\ us[i].email = email
            /\ \A j \in 1..(i - 1) : us[j].email # email
    ELSE 0

\* db.query(Rep).filter(Rep.user_id == u.id).first(): the row's id, 0 for None
find_rep(rs, user_id) ==
    IF \E i \in 1..Len(rs) : rs[i].user_id = user_id
    THEN CHOOSE i \in 1..Len(rs) :
            /\ rs[i].user_id = user_id
            /\ \A j \in 1..(i - 1) : rs[j].user_id # user_id
    ELSE 0

\* add_audit(db, user, action, entity, entity_id): entity_id is stored as str
add_audit(logs, user, action, entity, entity_id) ==
    Append(logs, AuditLog(user, action, entity, Digits(entity_id)))

\* the Admin tab is composed for a signed-in user whose role is 'admin'
admin_signed_in == \E i \in 1..Len(users) : users[i].role = "admin"

\* register_user(email, full_name, password, role): None for a known email,
\* else the user row, its rep row and the audit row
register_user(email, role) ==
    /\ IF find_user(users, email) # 0
       THEN UNCHANGED <<users, reps, audit_logs>>
       ELSE /\ users' = Append(users, User(email, role))
            /\ reps' = Append(reps, Rep(Len(users) + 1))
            /\ audit_logs' =
                  add_audit(audit_logs, email, "register", "user", Len(users) + 1)
    /\ UNCHANGED <<sessions, commission_rules, procedures, commissions,
                   offline_queue, evaluation>>

\* the form 'create_admin': 'User exists' for a known email, else the user row
create_admin(e) ==
    /\ admin_signed_in
    /\ users' = IF find_user(users, e) # 0 THEN users
                ELSE Append(users, User(e, "admin"))
    /\ UNCHANGED <<reps, audit_logs, sessions, commission_rules, procedures,
                   commissions, offline_queue, evaluation>>

----------------------------------------------------------------------------
(* Admin: 'rule_form' *)

\* json.loads(cond) if cond.strip() else {}
cond_json(cond) ==
    IF cond.kind = "blank" THEN EmptyDict ELSE cond.value

\* CommissionRule(name=rn, condition=cond_json, mode=mode, value=val, active=active)
CommissionRule(cond, mode, val, active) ==
    [condition      |-> cond_json(cond),
     mode           |-> mode,
     value          |-> val,
     active         |-> active,
     effective_from |-> EffectiveFromDefault,
     effective_to   |-> EffectiveToDefault]

\* rule_form recomputing the stored commissions after saving the rule
rule_form_recompute(cond, mode, val, active) ==
    /\ admin_signed_in
    /\ commission_rules' =
          IF cond.kind = "invalid" THEN commission_rules
          ELSE Append(commission_rules, CommissionRule(cond, mode, val, active))
    /\ commissions' =
          [c \in 1..Len(commissions) |->
              LET res == calculate_commission_for_procedure(
                             commission_rules', procedures[commissions[c].procedure_id],
                             EffectiveFromDefault)
              IN  IF res.raised THEN commissions[c]
                  ELSE [commissions[c] EXCEPT !.amount = res.total]]
    /\ UNCHANGED <<users, reps, audit_logs, sessions, procedures, offline_queue,
                   evaluation>>

\* 'Save rule': json.loads raising shows 'Invalid JSON' and stores nothing
rule_form(cond, mode, val, active) ==
    /\ admin_signed_in
    /\ commission_rules' =
          IF cond.kind = "invalid" THEN commission_rules
          ELSE Append(commission_rules, CommissionRule(cond, mode, val, active))
    /\ UNCHANGED <<users, reps, audit_logs, sessions, procedures, commissions,
                   offline_queue, evaluation>>

----------------------------------------------------------------------------
(* Offline queue file *)

\* load_offline_queue()
load_offline_queue == offline_queue

\* save_to_offline_queue(entry): read the list, append, write it back
save_to_offline_queue(entry) == Append(load_offline_queue, entry)

\* clear_offline_queue(): QUEUE_FILE.unlink()
clear_offline_queue == <<>>

----------------------------------------------------------------------------
(* 'Log Procedure': the online path looks up the user's rep, persists the
   procedure, then computes and persists its commission and the audit row; an
   exception ends the handler where it is raised *)

\* the entry dict of the signed-in user `email` with the form's fields
Entry(email, fields) ==
    [rep_email      |-> email,
     hospital       |-> fields.hospital,
     procedure_type |-> fields.procedure_type,
     revenue        |-> fields.revenue]

Commission(procedure_id, amount) ==
    [procedure_id |-> procedure_id, amount |-> amount]

\* lines 423-438 on the tables (procs, comms): the procedure row is committed,
\* and the commission row unless the evaluator raised
persist_with_commission(procs, comms, entry, now) ==
    LET proc     == ProcedureRow(Len(procs) + 1, entry)
        comm_amt == calculate_commission_for_procedure(commission_rules, proc, now)
    IN  [procedures  |-> Append(procs, proc),
         commissions |-> IF comm_amt.raised THEN comms
                         ELSE Append(comms, Commission(Len(procs) + 1, comm_amt.total)),
         raised      |-> comm_amt.raised]

proc_form(email, fields, save_offline, now) ==
    /\ find_user(users, email) # 0
    /\ IF save_offline
       THEN /\ offline_queue' = save_to_offline_queue(Entry(email, fields))
            /\ UNCHANGED <<users, reps, audit_logs, sessions, commission_rules,
                           procedures, commissions, evaluation>>
       ELSE LET rep  == find_rep(reps, find_user(users, email))
                done == persist_with_commission(
                            procedures, commissions, Entry(email, fields), now)
            IN  IF rep = 0
                THEN UNCHANGED vars      \* rep.id of None raises before any insert
                ELSE /\ procedures' = done.procedures
                     /\ commissions' = done.commissions
                     /\ audit_logs' =
                           IF done.raised THEN audit_logs
                           ELSE add_audit(audit_logs, email, "create_procedure",
                                          "procedure", Len(procedures) + 1)
                     /\ UNCHANGED <<users, reps, sessions, commission_rules,
                                    offline_queue, evaluation>>

----------------------------------------------------------------------------
(* 'Offline Queue': 'Sync all to server (process queue)' *)

\* the tables the sync works on
Tables ==
    [users |-> users, reps |-> reps, procedures |-> procedures,
     commissions |-> commissions, audit_logs |-> audit_logs]

\* one turn of `for entry in q` on the tables db: the user of rep_email is
\* found or created with its rep, the procedure is committed, then the
\* commission and the audit row; r.id of None and the evaluator may raise
sync_entry(db, entry, now) ==
    LET u    == find_user(db.users, entry.rep_email)
        uid  == IF u = 0 THEN Len(db.users) + 1 ELSE u
        us   == IF u = 0 THEN Append(db.users, User(entry.rep_email, "rep"))
                         ELSE db.users
        rs   == IF u = 0 THEN Append(db.reps, Rep(uid)) ELSE db.reps
        done == persist_with_commission(db.procedures, db.commissions, entry, now)
    IN  IF find_rep(rs, uid) = 0
        THEN [db |-> db, raised |-> TRUE]
        ELSE [db |-> [users       |-> us,
                      reps        |-> rs,
                      procedures  |-> done.procedures,
                      commissions |-> done.commissions,
                      audit_logs  |->
                          IF done.raised THEN db.audit_logs
                          ELSE add_audit(db.audit_logs, entry.rep_email, "sync_offline",
                                         "procedure", Len(db.procedures) + 1)],
              raised |-> done.raised]

\* the loop `for entry in q`, from entry i on; an exception ends it
RECURSIVE sync_loop(_, _, _, _)
sync_loop(q, i, db, now) ==
    IF i > Len(q) THEN [db |-> db, raised |-> FALSE]
    ELSE LET done == sync_entry(db, q[i], now) IN
         IF done.raised THEN done
         ELSE sync_loop(q, i + 1, done.db, now)

\* the tables become those of db
Commit(db) ==
    /\ users' = db.users
    /\ reps' = db.reps
    /\ procedures' = db.procedures
    /\ commissions' = db.commissions
    /\ audit_logs' = db.audit_logs

\* the button is shown only `if q`; the queue file is removed after the loop
sync(now) ==
    LET q    == load_offline_queue
        done == sync_loop(q, 1, Tables, now)
    IN  /\ q # <<>>
        /\ Commit(done.db)
        /\ offline_queue' = IF done.raised THEN offline_queue ELSE clear_offline_queue
        /\ UNCHANGED <<sessions, commission_rules, evaluation>>

----------------------------------------------------------------------------
(* The same queue operations step by step, as the script threads of several
   sessions interleave them: a read and a write of QUEUE_FILE, one turn of the
   sync loop, the unlink *)

Running(s, pc, queue, i, entry) ==
    [sessions EXCEPT ![s] = [pc |-> pc, queue |-> queue, i |-> i, entry |-> entry,
                             saved |-> sessions[s].saved]]

\* save_to_offline_queue, lines 196-202: the list is read from the file
save_read(s, entry) ==
    /\ sessions[s].pc = "idle"
    /\ find_user(users, entry.rep_email) # 0
    /\ sessions' = Running(s, "save_write", offline_queue, 0, entry)
    /\ UNCHANGED <<users, reps, audit_logs, commission_rules, procedures,
                   commissions, offline_queue, evaluation>>

\* save_to_offline_queue, lines 203-205: the list read, with the entry
\* appended, is written over the file
save_write(s) ==
    /\ sessions[s].pc = "save_write"
    /\ offline_queue' = Append(sessions[s].queue, sessions[s].entry)
    /\ sessions' = [sessions EXCEPT ![s] = [Idle EXCEPT !.saved = TRUE]]
    /\ UNCHANGED <<users, reps, audit_logs, commission_rules, procedures,
                   commissions, evaluation>>

\* q = load_offline_queue() and the button pressed, lines 472-478
sync_load(s) ==
    /\ sessions[s].pc = "idle"
    /\ offline_queue # <<>>
    /\ sessions' = Running(s, "sync_loop", offline_queue, 1, NoneV)
    /\ UNCHANGED <<users, reps, audit_logs, commission_rules, procedures,
                   commissions, offline_queue, evaluation>>

\* one turn of `for entry in q`, lines 479-502; an exception ends the script
sync_turn(s, now) ==
    LET q    == sessions[s].queue
        i    == sessions[s].i
        done == sync_entry(Tables, q[i], now)
    IN  /\ sessions[s].pc = "sync_loop"
        /\ i <= Len(q)
        /\ Commit(done.db)
        /\ sessions' =
              IF done.raised
              THEN [sessions EXCEPT ![s] = [Idle EXCEPT !.saved = sessions[s].saved]]
              ELSE Running(s, "sync_loop", q, i + 1, NoneV)
        /\ UNCHANGED <<commission_rules, offline_queue, evaluation>>

\* clear_offline_queue() after the loop, line 504
sync_clear(s) ==
    /\ sessions[s].pc = "sync_loop"
    /\ sessions[s].i > Len(sessions[s].queue)
    /\ offline_queue' = clear_offline_queue
    /\ sessions' = [sessions EXCEPT ![s] = [Idle EXCEPT !.saved = sessions[s].saved]]
    /\ UNCHANGED <<users, reps, audit_logs, commission_rules, procedures,
                   commissions, evaluation>>

----------------------------------------------------------------------------
(* The observed call of the evaluator on the stored rules *)

\* the observed call, were the evaluator to store its amount itself
evaluate_persisting(procedure, now) ==
    LET res == calculate_commission_for_procedure(commission_rules, procedure, now) IN
    /\ evaluation' = [called |-> TRUE, procedure |-> procedure,
                      rules |-> commission_rules, now |-> now,
                      raised |-> res.raised, total |-> res.total]
    /\ commissions' = IF res.raised THEN commissions
                      ELSE Append(commissions, Commission(procedure.id.n, res.total))
    /\ UNCHANGED <<users, reps, audit_logs, sessions, commission_rules, procedures,
                   offline_queue>>

evaluate(procedure, now) ==
    LET res == calculate_commission_for_procedure(commission_rules, procedure, now) IN
    /\ evaluation' = [called |-> TRUE, procedure |-> procedure,
                      rules |-> commission_rules, now |-> now,
                      raised |-> res.raised, total |-> res.total]
    /\ UNCHANGED <<users, reps, audit_logs, sessions, commission_rules, procedures,
                   commissions, offline_queue>>

----------------------------------------------------------------------------
(* Specifications *)

\* the user of the program and evaluator specifications
FirstEmail == "a@x"

\* the program: a user registers; active rules are saved, procedures are
\* submitted online or to the queue, the queue is synced
Next ==
    \/ \E role \in Roles : register_user(FirstEmail, role)
    \/ \E cond \in FormCondTexts, mode \in Modes, val \in Vals :
          /\ Len(commission_rules) < MaxRules
          /\ rule_form(cond, mode, val, TRUE)
    \/ \E entry \in FormEntries, save_offline \in BOOLEAN, now \in Times :
          /\ IF save_offline THEN Len(offline_queue) < MaxQueue
                             ELSE Len(procedures) < MaxProcs
          /\ proc_form(FirstEmail, entry, save_offline, now)
    \/ \E now \in Times :
          /\ Len(procedures) + Len(offline_queue) <= MaxProcs
          /\ sync(now)

Spec == Init /\ [][Next]_vars

\* the evaluator: an admin registers, rules are stored through the rule form,
\* then the evaluator is called on a procedure at some clock reading
NextEval ==
    \/ /\ ~evaluation.called
       /\ register_user(FirstEmail, "admin")
    \/ \E cond \in EvalCondTexts, mode \in Modes, val \in Vals, active \in BOOLEAN :
          /\ ~evaluation.called
          /\ Len(commission_rules) < MaxEvalRules
          /\ rule_form(cond, mode, val, active)
    \/ \E procedure \in ProcedureObjects, now \in Times :
          /\ ~evaluation.called
          /\ evaluate(procedure, now)

SpecEval == Init /\ [][NextEval]_vars

\* the rule texts saved and the entries submitted in the application
\* specification
AppCondTexts == {JsonText(CondKN)}
AppEntries == {e \in FormEntries : e.procedure_type = <<"k", "n">>}

\* the application: users register, admins create admins and save rules,
\* signed-in users submit procedures online or to the queue and sync it; the
\* evaluator is observed once on a stored procedure
NextApp ==
    \/ \E email \in Emails, role \in Roles :
          /\ ~evaluation.called
          /\ register_user(email, role)
    \/ \E e \in Emails :
          /\ ~evaluation.called
          /\ create_admin(e)
    \/ \E cond \in AppCondTexts, mode \in Modes, val \in Vals :
          /\ ~evaluation.called
          /\ Len(commission_rules) < MaxAppRules
          /\ rule_form(cond, mode, val, TRUE)
    \/ \E email \in Emails, entry \in AppEntries, save_offline \in BOOLEAN,
          now \in Times :
          /\ ~evaluation.called
          /\ IF save_offline THEN Len(offline_queue) < MaxQueue
                             ELSE Len(procedures) < MaxAppProcs
          /\ proc_form(email, entry, save_offline, now)
    \/ \E now \in Times :
          /\ ~evaluation.called
          /\ Len(procedures) + Len(offline_queue) <= MaxAppProcs
          /\ sync(now)
    \/ \E p \in 1..Len(procedures), now \in Times :
          /\ ~evaluation.called
          /\ evaluate(procedures[p], now)

SpecApp == Init /\ [][NextApp]_vars

\* the entry session s saves: its hospital tells the sessions' entries apart
SessionEntry(s) ==
    Entry(FirstEmail, [hospital       |-> <<"H">> \o Digits(s),
                       procedure_type |-> <<"k", "n">>,
                       revenue        |-> 200])

\* the offline queue shared by the sessions of one registered user: each
\* session saves its entry once, and any session syncs whenever the queue
\* file holds entries
NextQueue ==
    \/ register_user(FirstEmail, "rep")
    \/ \E s \in Sessions :
          /\ ~sessions[s].saved
          /\ save_read(s, SessionEntry(s))
    \/ \E s \in Sessions : save_write(s)
    \/ \E s \in Sessions : sync_load(s)
    \/ \E s \in Sessions, now \in Times : sync_turn(s, now)
    \/ \E s \in Sessions : sync_clear(s)

SpecQueue == Init /\ [][NextQueue]_vars

----------------------------------------------------------------------------
(* Vocabulary of the properties, stated on the rule rows and the procedure
   rather than through the evaluator's loops *)

\* the rule is in force at t: active, and t within its window, bounds included
InForce(r, t) == r.active /\ r.effective_from <= t /\ t <= r.effective_to

\* the procedure has the attribute (a None attribute counts as absent)
Possesses(p, k) == k \in DOMAIN p /\ p[k] # NoneV

LowerString(v) == lower(str(v))

\* the condition is a mapping, or is absent
WellFormed(r) == r.condition.t \in {"dict", "none"}

ConditionItems(r) == IF r.condition.t = "dict" THEN r.condition.items ELSE <<>>

\* every key of the condition is an attribute of the procedure whose value
\* equals the expected one as lowercase strings
Matches(r, p) ==
    /\ WellFormed(r)
    /\ \A j \in 1..Len(ConditionItems(r)) :
          LET it == ConditionItems(r)[j] IN
          /\ Possesses(p, it.k)
          /\ LowerString(p[it.k]) = LowerString(it.v)

RevenueOf(p) == IF p.revenue = NoneV THEN 0 ELSE p.revenue.n

\* R * V / 100 units for a percentage rule, V units for a fixed one, in hundredths
Amount(r, p) ==
    IF r.mode = "percentage" THEN RevenueOf(p) * r.value ELSE r.value * 100

RECURSIVE SumAmounts(_, _, _)
SumAmounts(rules, p, I) ==
    IF I = {} THEN 0
    ELSE LET i == CHOOSE x \in I : TRUE IN
         Amount(rules[i], p) + SumAmounts(rules, p, I \ {i})

\* the sum of the amounts of all rules in force that match
ExpectedTotal(rules, p, t) ==
    SumAmounts(rules, p, {i \in 1..Len(rules) : InForce(rules[i], t) /\ Matches(rules[i], p)})

RemoveAt(seq, i) == SubSeq(seq, 1, i - 1) \o SubSeq(seq, i + 1, Len(seq))

Permuted(seq, f) == [i \in 1..Len(seq) |-> seq[f[i]]]

\* the evaluator was called and returned an amount
EvalReturned == evaluation.called /\ ~evaluation.raised

\* the amount the observed call would have returned without rule i
TotalWithout(i) ==
    calculate_commission_for_procedure(
        RemoveAt(evaluation.rules, i), evaluation.procedure, evaluation.now).total

\* what rule i added to the amount the observed call returned
ContributionOf(i) == evaluation.total - TotalWithout(i)

\* the rules the rule form can store
StorableRules ==
    {CommissionRule(c, m, v, a) :
        c \in EvalCondTexts \ {InvalidText}, m \in Modes, v \in Vals, a \in BOOLEAN}

----------------------------------------------------------------------------
(* Properties of the evaluator (specification SpecEval) *)

\* C1: the amount returned is the sum of the contributions of all rules in
\* force that match; it does not depend on the order of the rules, and one
\* more matching rule in force adds exactly its own contribution.
TotalIsSumOfAllMatching ==
    EvalReturned =>
        LET rules == evaluation.rules
            p     == evaluation.procedure
            t     == evaluation.now
        IN  /\ evaluation.total = ExpectedTotal(rules, p, t)
            /\ \A f \in Permutations(1..Len(rules)) :
                  calculate_commission_for_procedure(Permuted(rules, f), p, t)
                      = Returned(evaluation.total)
            /\ \A r \in StorableRules :
                  InForce(r, t) /\ Matches(r, p) =>
                      calculate_commission_for_procedure(Append(rules, r), p, t)
                          = Returned(evaluation.total + Amount(r, p))

\* C1 witness: a fixed and a percentage rule both match a procedure with
\* revenue 200, and the amount is 10 * 100 + 200 * 10 hundredths.
TwoMatchingRulesSummed ==
    /\ EvalReturned
    /\ Len(evaluation.rules) = 2
    /\ \A i \in 1..2 : /\ InForce(evaluation.rules[i], evaluation.now)
                       /\ Matches(evaluation.rules[i], evaluation.procedure)
    /\ evaluation.rules[1].mode = "fixed"
    /\ evaluation.rules[2].mode = "percentage"
    /\ evaluation.procedure.revenue = FloatV(200)
    /\ evaluation.total = 3000

\* C2 (as claimed): the evaluator raises nothing for any stored rule; a
\* malformed rule is a non-match and the other rules contribute as usual.
NoExceptionPropagates ==
    evaluation.called =>
        /\ ~evaluation.raised
        /\ evaluation.total =
              ExpectedTotal(evaluation.rules, evaluation.procedure, evaluation.now)

\* C4: a rule that is inactive or whose window does not hold `now` adds
\* nothing, even when its condition matches; an active matching rule with
\* effective_from <= now <= effective_to, the bounds included, adds its amount.
OnlyRulesInForceContribute ==
    EvalReturned =>
        \A i \in 1..Len(evaluation.rules) :
            LET r == evaluation.rules[i]
                t == evaluation.now
            IN  /\ (~r.active \/ t < r.effective_from \/ t > r.effective_to)
                      => ContributionOf(i) = 0
                /\ (r.active /\ r.effective_from <= t /\ t <= r.effective_to
                      /\ Matches(r, evaluation.procedure))
                      => ContributionOf(i) = Amount(r, evaluation.procedure)

\* C4 witness: at now = effective_to an active matching rule adds its amount,
\* while an inactive matching rule beside it adds nothing.
BoundaryRuleContributes ==
    /\ EvalReturned
    /\ Len(evaluation.rules) = 2
    /\ ~evaluation.rules[1].active
    /\ Matches(evaluation.rules[1], evaluation.procedure)
    /\ Amount(evaluation.rules[1], evaluation.procedure) > 0
    /\ evaluation.rules[2].active
    /\ evaluation.now = evaluation.rules[2].effective_to
    /\ Matches(evaluation.rules[2], evaluation.procedure)
    /\ Amount(evaluation.rules[2], evaluation.procedure) > 0
    /\ evaluation.total = Amount(evaluation.rules[2], evaluation.procedure)

\* C5: a rule whose condition names an attribute the procedure does not have
\* adds nothing, whatever its other keys, its mode and its value.
AbsentAttributeNeverMatches ==
    EvalReturned =>
        \A i \in 1..Len(evaluation.rules) :
            LET r == evaluation.rules[i] IN
            (\E j \in 1..Len(ConditionItems(r)) :
                ~Possesses(evaluation.procedure, ConditionItems(r)[j].k))
            => ContributionOf(i) = 0

\* C5 witness: a rule in force whose first key matches and whose second key,
\* territory, is no attribute of the procedure; the amount returned is 0.
AbsentAttributeRuleEvaluated ==
    /\ EvalReturned
    /\ Len(evaluation.rules) = 1
    /\ InForce(evaluation.rules[1], evaluation.now)
    /\ evaluation.rules[1].condition = CondTerritory
    /\ evaluation.procedure.procedure_type = StrV(<<"k", "n">>)
    /\ Amount(evaluation.rules[1], evaluation.procedure) > 0
    /\ evaluation.total = 0

\* C7: a matching percentage rule in force with value V adds R * V / 100 for a
\* procedure of revenue R (R * V hundredths), an absent revenue counting as 0.
PercentageContribution ==
    EvalReturned =>
        \A i \in 1..Len(evaluation.rules) :
            LET r == evaluation.rules[i]
                p == evaluation.procedure
            IN  (InForce(r, evaluation.now) /\ Matches(r, p) /\ r.mode = "percentage")
                => ContributionOf(i) =
                      (IF p.revenue = NoneV THEN 0 ELSE p.revenue.n) * r.value

\* C7 witness: a percentage rule of 10 matched a procedure of revenue 200
\* beside a matching fixed rule, and added 200 * 10 / 100 = 20 units.
PercentageRuleApplied ==
    /\ EvalReturned
    /\ Len(evaluation.rules) = 2
    /\ \A i \in 1..2 : /\ InForce(evaluation.rules[i], evaluation.now)
                       /\ Matches(evaluation.rules[i], evaluation.procedure)
    /\ evaluation.rules[1].mode = "percentage"
    /\ evaluation.rules[2].mode = "fixed"
    /\ evaluation.procedure.revenue = FloatV(200)
    /\ ContributionOf(1) = 2000

\* C8: a matching fixed rule in force with value V adds exactly V (V * 100
\* hundredths), whatever the revenue, 0 and absent included.
FixedContribution ==
    EvalReturned =>
        \A i \in 1..Len(evaluation.rules) :
            LET r == evaluation.rules[i] IN
            (InForce(r, evaluation.now) /\ Matches(r, evaluation.procedure)
                /\ r.mode = "fixed")
            => ContributionOf(i) = r.value * 100

\* C8 witness: a fixed rule of 10 matched a procedure whose revenue is absent
\* and the amount returned is 10 units.
FixedRuleAppliedWithoutRevenue ==
    /\ EvalReturned
    /\ Len(evaluation.rules) = 1
    /\ InForce(evaluation.rules[1], evaluation.now)
    /\ Matches(evaluation.rules[1], evaluation.procedure)
    /\ evaluation.rules[1].mode = "fixed"
    /\ evaluation.procedure.revenue = NoneV
    /\ evaluation.total = 1000

\* C9: for a rule in force whose condition keys are all attributes of the
\* procedure, the rule adds its amount when every attribute equals the
\* expected value as lowercase strings, and nothing when one differs.
CaseInsensitiveMatching ==
    EvalReturned =>
        \A i \in 1..Len(evaluation.rules) :
            LET r     == evaluation.rules[i]
                p     == evaluation.procedure
                items == ConditionItems(r)
            IN  (/\ InForce(r, evaluation.now)
                 /\ r.condition.t = "dict"
                 /\ \A j \in 1..Len(items) : Possesses(p, items[j].k))
                => IF \A j \in 1..Len(items) :
                         lower(str(p[items[j].k])) = lower(str(items[j].v))
                   THEN ContributionOf(i) = Amount(r, p)
                   ELSE ContributionOf(i) = 0

\* C9 witness: "KN" in the condition matched procedure_type "kn", and "ch" in
\* the condition matched hospital "CH"; both rules added their amounts.
MatchedAcrossCase ==
    /\ EvalReturned
    /\ Len(evaluation.rules) = 2
    /\ \A i \in 1..2 : InForce(evaluation.rules[i], evaluation.now)
    /\ evaluation.rules[1].condition = CondKN
    /\ evaluation.rules[2].condition = CondHospRev
    /\ evaluation.procedure.procedure_type = StrV(<<"k", "n">>)
    /\ evaluation.procedure.hospital = StrV(<<"C", "H">>)
    /\ ContributionOf(1) > 0
    /\ ContributionOf(2) > 0

\* C10: a rule in force whose condition is the empty mapping, or is absent,
\* adds its amount for every procedure.
EmptyConditionMatchesAll ==
    EvalReturned =>
        \A i \in 1..Len(evaluation.rules) :
            LET r == evaluation.rules[i] IN
            (InForce(r, evaluation.now) /\ r.condition \in {EmptyDict, NoneV})
            => ContributionOf(i) = Amount(r, evaluation.procedure)

\* C10 witness: a rule with the empty mapping and a rule without condition
\* both added their amounts to the commission of a procedure.
EmptyAndAbsentConditionApplied ==
    /\ EvalReturned
    /\ Len(evaluation.rules) = 2
    /\ \A i \in 1..2 : InForce(evaluation.rules[i], evaluation.now)
    /\ evaluation.rules[1].condition = EmptyDict
    /\ evaluation.rules[2].condition = NoneV
    /\ ContributionOf(1) > 0
    /\ ContributionOf(2) > 0
    /\ evaluation.total = ContributionOf(1) + ContributionOf(2)

\* C11: with no stored rule, or none in force, the evaluator returns exactly
\* zero and raises nothing.
NoRuleInForceYieldsZero ==
    (/\ evaluation.called
     /\ \A i \in 1..Len(evaluation.rules) :
           ~InForce(evaluation.rules[i], evaluation.now))
    => (~evaluation.raised /\ evaluation.total = 0)

\* C11 witness: the evaluator returned zero on two stored rules of which none
\* is in force: a matching one whose window has ended and an inactive one
\* whose condition is an array.
NoCandidateAmongStoredRules ==
    /\ EvalReturned
    /\ Len(evaluation.rules) = 2
    /\ evaluation.rules[1].active
    /\ evaluation.now > evaluation.rules[1].effective_to
    /\ Matches(evaluation.rules[1], evaluation.procedure)
    /\ Amount(evaluation.rules[1], evaluation.procedure) > 0
    /\ ~evaluation.rules[2].active
    /\ evaluation.rules[2].condition = CondList
    /\ evaluation.total = 0

----------------------------------------------------------------------------
(* Properties of the stored records (specification Spec) *)

CommissionsOf(id) ==
    {c \in 1..Len(commissions) : commissions[c].procedure_id = id}

\* C3 (as claimed): every persisted procedure has exactly one commission.
OneCommissionPerProcedure ==
    \A id \in 1..Len(procedures) : Cardinality(CommissionsOf(id)) = 1

\* C6: a stored commission is never altered or removed, whatever rule is
\* saved and whatever procedure is submitted or synced afterwards.
CommissionNeverRecomputed ==
    [][\A c \in 1..Len(commissions) :
          /\ c <= Len(commissions')
          /\ commissions'[c] = commissions[c]]_vars

\* C6 witness: a stored commission above 0 that the rules now stored would
\* give at no clock reading: the rules changed after it was computed.
StaleCommissionKept ==
    \E c \in 1..Len(commissions) :
        /\ commissions[c].amount > 0
        /\ \A t \in Times :
              calculate_commission_for_procedure(
                  commission_rules, procedures[commissions[c].procedure_id], t)
                  # Returned(commissions[c].amount)

----------------------------------------------------------------------------
(* Properties of the evaluator's effects (specification SpecApp) *)

\* C12: the evaluator has no side effects: a step in which it is called
\* leaves the stored rules, procedures, commissions, audit log, offline queue
\* and accounts as they were.
EvaluatorLeavesStoreUnchanged ==
    [][evaluation' # evaluation =>
          UNCHANGED <<commission_rules, procedures, commissions, audit_logs,
                      offline_queue, users, reps>>]_vars

\* C12 witness: the evaluator has returned an amount above 0 for a stored
\* procedure while rules, commissions, audit rows and a queued entry were
\* stored, and the procedure still has only the commission its submission
\* stored.
EvaluatedOnPopulatedStore ==
    /\ EvalReturned
    /\ evaluation.total > 0
    /\ evaluation.rules = commission_rules
    /\ commission_rules # <<>>
    /\ audit_logs # <<>>
    /\ offline_queue # <<>>
    /\ \E p \in 1..Len(procedures) :
          /\ procedures[p] = evaluation.procedure
          /\ Cardinality(CommissionsOf(p)) = 1

----------------------------------------------------------------------------
(* Properties of the offline queue under interleaving (specification
   SpecQueue) *)

\* the procedures stored for the entry session s saved
ProceduresOf(s) ==
    {p \in 1..Len(procedures) :
        procedures[p].hospital = StrV(SessionEntry(s).hospital)}

\* C13 (as claimed): once no session is in the middle of a save or a sync and
\* the queue file is empty, every saved entry is exactly one procedure with
\* its commission, and at no time is an entry more than one procedure.
EverySavedEntryOneProcedure ==
    /\ \A s \in Sessions : Cardinality(ProceduresOf(s)) <= 1
    /\ (/\ \A s \in Sessions : sessions[s].pc = "idle"
        /\ offline_queue = <<>>)
       => \A s \in Sessions :
             sessions[s].saved =>
                /\ Cardinality(ProceduresOf(s)) = 1
                /\ \A p \in ProceduresOf(s) : Cardinality(CommissionsOf(p)) = 1

----------------------------------------------------------------------------
(* Properties of the accounts (specification SpecApp) *)

\* the rep rows of user u
RepsOf(u) == {r \in 1..Len(reps) : reps[r].user_id = u}

\* C14 (as claimed): every user has exactly one rep and no two users share
\* an email.
EveryUserHasOneRep ==
    /\ \A u \in 1..Len(users) : Cardinality(RepsOf(u)) = 1
    /\ \A u, v \in 1..Len(users) : users[u].email = users[v].email => u = v

====
